---- MODULE Spec2Model ----
(***************************************************************************)
(* Model of advanced_checkout.js: an Express relay with three POST         *)
(* handlers (/initiate-payment, /complete_order, /get_client_token), each  *)
(* an async function that awaits get_access_token() and then one fetch to  *)
(* the processor.  A handler runs atomically between its awaits and        *)
(* returns to the event loop at each of them: at the token fetch, at the   *)
(* response.json() of the token response, at the endpoint fetch and at the *)
(* response.json() of the endpoint response.  The token fetch and its body *)
(* are awaited inside get_access_token, whose promise the handler awaits:  *)
(* when get_access_token returns or throws, the handler is resumed by a    *)
(* promise job of its own.  Each handler is so six steps: start, token     *)
(* response, token body, resumption after get_access_token, endpoint       *)
(* response, endpoint body.  The processor is the environment: every       *)
(* response and every body is drawn from a small set, and a pending fetch  *)
(* or body read may also never complete.                                   *)
(***************************************************************************)
EXTENDS Integers, Sequences, FiniteSets, TLC

\* Number of client requests handled by the server in one behaviour.
MaxReq == 2

Requests == 1..MaxReq

VARIABLES
    process,       \* the server process: "serving" or "crashed"
    pc,            \* per request: position of its handler
    req,           \* per request: [endpoint, body]
    access_token,  \* per request: the handler's local const access_token
    calls,         \* per request: the outbound fetches issued, in order
    tokRes,        \* per request: result of the token fetch (body once read)
    token_promise, \* per request: how its call of get_access_token completed
    apiRes,        \* per request: result of the endpoint fetch (body once read)
    hung,          \* per request: its pending await will never complete
    res,           \* per request: the response sent to the client
    resCount,      \* per request: number of responses sent
    receipts       \* per request: number of send_email_receipt invocations

vars == <<process, pc, req, access_token, calls, tokRes, token_promise, apiRes,
          hung, res, resCount, receipts>>

----------------------------------------------------------------------------
\* JavaScript values

Undefined == "undefined"

\* JS truthiness of a string-or-undefined value: undefined and '' are falsy
Truthy(v) == v # Undefined /\ v # ""

\* Error objects: constructor name, message (template text + interpolated
\* status, 0 when the message has none)
NoError == [name |-> "none", text |-> "", status |-> 0]

Error(text, status) == [name |-> "Error", text |-> text, status |-> status]

\* reading an identifier that no declaration binds
ReferenceError(ident) ==
    [name |-> "ReferenceError", text |-> ident \o " is not defined", status |-> 0]

\* completion of an evaluation: a value, or a thrown error
Return(v) == [thrown |-> FALSE, err |-> NoError, value |-> v]

Throw(e, v) == [thrown |-> TRUE, err |-> e, value |-> v]

----------------------------------------------------------------------------
\* Process-wide configuration (lines 16-20)

environment == "sandbox"

client_id == "PAYPAL_CLIENT_ID"

client_secret == "PAYPAL_SECRET_KEY"

endpoint_url ==
    IF environment = "sandbox" THEN "https://api-m.sandbox.paypal.com"
    ELSE "https://api-m.paypal.com"

----------------------------------------------------------------------------
\* Request bodies (req.body after express.json()); an absent field reads
\* as undefined

EmptyBody ==
    [cardNumber |-> Undefined, currency |-> Undefined, amount |-> Undefined,
     order_id |-> Undefined, intent |-> Undefined, email |-> Undefined,
     customer_id |-> Undefined]

Currencies == {"USD", "EUR"}
Amounts == {"10.00", "25.50"}
Cards == {"4111111111111111", "5555555555554444"}
OrderIds == {"ORDER-1"}
Intents == {"capture"}
Emails == {Undefined, "buyer@example.com"}
CustomerIds == {Undefined, "", "cust-1", "cust-2"}

InitiateBodies ==
    { [EmptyBody EXCEPT !.cardNumber = n, !.currency = c, !.amount = a] :
        n \in Cards, c \in Currencies, a \in Amounts }

CompleteBodies ==
    { [EmptyBody EXCEPT !.order_id = o, !.intent = i, !.email = e] :
        o \in OrderIds, i \in Intents, e \in Emails }

ClientTokenBodies ==
    { [EmptyBody EXCEPT !.customer_id = c] : c \in CustomerIds }

NoRequest == [endpoint |-> "none", body |-> EmptyBody]

----------------------------------------------------------------------------
\* Results of a fetch: the promise rejects (transport failure), or resolves
\* with a Response as soon as its status line and headers are in.  The body
\* arrives later, when response.json() is awaited, and may or may not parse
\* as JSON.

\* no body read (yet)
NoJson ==
    [arrived |-> FALSE, parses |-> FALSE, id |-> Undefined,
     access_token |-> Undefined, client_token |-> Undefined]

\* a body that arrived and is not JSON
InvalidJson == [NoJson EXCEPT !.arrived = TRUE]

\* a body that arrived and parsed
Json == [NoJson EXCEPT !.arrived = TRUE, !.parses = TRUE]

NoResult == [kind |-> "none", err |-> NoError, status |-> 0, body |-> NoJson]

Rejected(e) == [kind |-> "rejected", err |-> e, status |-> 0, body |-> NoJson]

Response(status, body) ==
    [kind |-> "response", err |-> NoError, status |-> status, body |-> body]

\* a fetch result as the awaited fetch delivers it: the body is not read
Unread(fr) == [fr EXCEPT !.body = NoJson]

FetchError == [name |-> "FetchError", text |-> "request failed", status |-> 0]

SyntaxError == [name |-> "SyntaxError", text |-> "invalid json", status |-> 0]

\* response.ok
ResponseOk(r) == r.status >= 200 /\ r.status <= 299

\* await response.json(), once the body has arrived
ResponseJson(r) ==
    IF r.body.parses THEN Return(r.body) ELSE Throw(SyntaxError, NoJson)

\* What the processor may answer on each endpoint
Tokens == {"A21AA-1", "A21AA-2"}
ClientTokens == {"ct-1", "ct-2"}
FailStatuses == {401, 500}

TokenResults ==
    { Response(200, [Json EXCEPT !.access_token = t]) : t \in Tokens \cup {Undefined} }
    \cup { Response(200, InvalidJson), Response(401, Json), Rejected(FetchError) }

OrderResults(ok, ids) ==
    { Response(s, [Json EXCEPT !.id = i]) : s \in ok, i \in ids }
    \cup { Response(200, InvalidJson), Rejected(FetchError) }
    \cup { Response(s, Json) : s \in FailStatuses }

ClientTokenResults ==
    { Response(200, [Json EXCEPT !.client_token = c]) :
        c \in ClientTokens \cup {Undefined} }
    \cup { Response(200, InvalidJson), Rejected(FetchError) }
    \cup { Response(s, Json) : s \in FailStatuses }

----------------------------------------------------------------------------
\* Outbound fetches.  A request body is the JSON text sent; a key whose
\* value is undefined is left out by JSON.stringify, and such a key reads
\* back as undefined here.

NoPayload ==
    [kind |-> "none", grant_type |-> Undefined, intent |-> Undefined,
     purchase_units |-> << >>, customer_id |-> Undefined]

NullPayload == [NoPayload EXCEPT !.kind = "null"]

FormPayload(grant) == [NoPayload EXCEPT !.kind = "form", !.grant_type = grant]

Basic(id, secret) == [scheme |-> "Basic", credentials |-> <<"base64", id, ":", secret>>]

Bearer(token) == [scheme |-> "Bearer", credentials |-> <<token>>]

Fetch(url, auth, payload) == [url |-> url, authorization |-> auth, body |-> payload]

\* get_access_token, up to its await fetch (lines 189-200)
TokenRequest ==
    Fetch(<<endpoint_url, "/v1/oauth2/token">>, Basic(client_id, client_secret),
          FormPayload("client_credentials"))

\* get_access_token with a catch that swallows the error instead of
\* rethrowing it
get_access_token_response_swallowed(fr) == Return(Undefined)

\* get_access_token, once its fetch has settled (lines 202, 205-210): it goes
\* on to await response.json() when it does not throw; the catch rethrows, so
\* every failure propagates to the calling handler
get_access_token_response(fr) ==
    IF fr.kind = "rejected" THEN Throw(fr.err, Undefined)
    ELSE IF ResponseOk(fr) THEN Return(Undefined)
    ELSE Throw(Error("Failed to retrieve access token. Status: ", fr.status),
               Undefined)

\* get_access_token, once response.json() has settled (lines 203-204, 208-210)
get_access_token_json(fr) ==
    LET json == ResponseJson(fr)
    IN  IF json.thrown THEN Throw(json.err, Undefined)
        ELSE Return(json.value.access_token)

----------------------------------------------------------------------------
\* Responses to the client and the effects of a handler step

NoRes == [status |-> 0, type |-> "none", json |-> NoJson, error |-> NoError,
          text |-> ""]

\* res.status(s).json(obj) / res.send(obj) with the processor's parsed JSON
ResJson(status, json) == [NoRes EXCEPT !.status = status, !.type = "json", !.json = json]

\* res.status(s).json({ error: err.message })
ResErrorMessage(status, err) ==
    [NoRes EXCEPT !.status = status, !.type = "json",
                  !.error = [err EXCEPT !.name = "message"]]

\* res.status(s).send(err): an Error serialises without its message
ResErrorObject(status, err) == [NoRes EXCEPT !.status = status, !.type = "json"]

\* res.send(string); res.send(undefined) sends an empty body
ResText(status, text) ==
    IF text = Undefined THEN [NoRes EXCEPT !.status = status, !.type = "empty"]
    ELSE [NoRes EXCEPT !.status = status, !.type = "text", !.text = text]

\* effects of a handler step: the response sent last, how many responses were
\* sent, how many receipts were dispatched, and whether an error left the
\* handler uncaught
NoEff == [res |-> NoRes, sent |-> 0, receipts |-> 0, uncaught |-> FALSE]

Send(eff, response) == [eff EXCEPT !.res = response, !.sent = @ + 1]

----------------------------------------------------------------------------
\* POST /initiate-payment (lines 37-77)

\* the order payload with amount and currency exchanged
InitiatePaymentOrderDataSwapped(body) ==
    [NoPayload EXCEPT !.kind = "json", !.intent = "CAPTURE",
        !.purchase_units =
            << [amount |-> [currency_code |-> body.amount,
                            value |-> body.currency]] >>]

\* lines 42-65: the order payload and the fetch that carries it
InitiatePaymentOrderData(body) ==
    [NoPayload EXCEPT !.kind = "json", !.intent = "CAPTURE",
        !.purchase_units =
            << [amount |-> [currency_code |-> body.currency,
                            value |-> body.amount]] >>]

InitiatePaymentFetch(body, token) ==
    Fetch(<<endpoint_url, "/v2/checkout/orders">>, Bearer(token),
          InitiatePaymentOrderData(body))

\* lines 67, 70-72: the try block once the fetch has settled; it goes on to
\* await response.json() when it does not throw
InitiatePaymentResponse(fr) ==
    IF fr.kind = "rejected" THEN Throw(fr.err, NoEff)
    ELSE IF ResponseOk(fr) THEN Return(NoEff)
    ELSE Throw(Error("Failed to create payment order. Status: ", fr.status),
               NoEff)

\* the try block with a statement that throws after the response was sent
InitiatePaymentJsonThrowsAfterSend(body, fr) ==
    IF fr.body.parses
    THEN Throw(ReferenceError("loggert"), Send(NoEff, ResJson(200, fr.body)))
    ELSE Throw(SyntaxError, NoEff)

\* lines 68-69: the try block once response.json() has settled
InitiatePaymentJson(body, fr) ==
    LET json == ResponseJson(fr)
    IN  IF json.thrown THEN Throw(json.err, NoEff)
        ELSE Return(Send(NoEff, ResJson(200, json.value)))

\* lines 73-76: the catch block
InitiatePaymentCatch(t) ==
    IF t.thrown THEN Send(t.value, ResErrorObject(500, t.err)) ELSE t.value

----------------------------------------------------------------------------
\* POST /complete_order (lines 94-123)

CompleteOrderFetch(body, token) ==
    Fetch(<<endpoint_url, "/v2/checkout/orders/", body.order_id, "/", body.intent>>,
          Bearer(token), NoPayload)

\* line 107: loggert is bound by no declaration or import of the module
LoggertInfo(json) == Throw(ReferenceError("loggert"), NoEff)

\* line 110: send_email_receipt is bound by no declaration or import either
send_email_receipt(eff, id, email) == Throw(ReferenceError("send_email_receipt"), eff)

\* lines 105, 115-117: the try block once the fetch has settled; it goes on
\* to await response.json() when it does not throw
CompleteOrderResponse(fr) ==
    IF fr.kind = "rejected" THEN Throw(fr.err, NoEff)
    ELSE IF ResponseOk(fr) THEN Return(NoEff)
    ELSE Throw(Error("Failed to complete order. Status: ", fr.status), NoEff)

\* lines 106-114: the try block once response.json() has settled
CompleteOrderJson(body, fr) ==
    LET json == ResponseJson(fr)
    IN  IF json.thrown THEN Throw(json.err, NoEff)
        ELSE LET log == LoggertInfo(json.value)
                 mail == IF Truthy(json.value.id)
                         THEN send_email_receipt(NoEff, json.value.id, body.email)
                         ELSE Return(NoEff)
             IN  IF log.thrown THEN Throw(log.err, NoEff)
                 ELSE IF mail.thrown THEN Throw(mail.err, mail.value)
                 ELSE Return(Send(mail.value, ResJson(200, json.value)))

\* a handler without the catch block: the error leaves the async handler
CompleteOrderNoCatch(t) ==
    IF t.thrown THEN [t.value EXCEPT !.uncaught = TRUE] ELSE t.value

\* lines 118-122: the catch block
CompleteOrderCatch(t) ==
    IF t.thrown THEN Send(t.value, ResErrorMessage(500, t.err)) ELSE t.value

----------------------------------------------------------------------------
\* POST /get_client_token (lines 139-166)

\* the payload built without the test of customer_id
ClientTokenPayloadUnconditional(body) ==
    [NoPayload EXCEPT !.kind = "json", !.customer_id = body.customer_id]

\* lines 143-145
ClientTokenPayload(body) ==
    IF Truthy(body.customer_id)
    THEN [NoPayload EXCEPT !.kind = "json", !.customer_id = body.customer_id]
    ELSE NullPayload

\* the fetch made with a token kept in a module-level variable
ClientTokenFetchCachedToken(body, token) ==
    Fetch(<<endpoint_url, "/v1/identity/generate-token">>, Bearer("A21AA-1"),
          ClientTokenPayload(body))

ClientTokenFetch(body, token) ==
    Fetch(<<endpoint_url, "/v1/identity/generate-token">>, Bearer(token),
          ClientTokenPayload(body))

\* the try block without the test of response.ok
ClientTokenResponseIgnoresStatus(fr) ==
    IF fr.kind = "rejected" THEN Throw(fr.err, NoEff) ELSE Return(NoEff)

\* lines 156, 159-161: the try block once the fetch has settled; it goes on
\* to await response.json() when it does not throw
ClientTokenResponse(fr) ==
    IF fr.kind = "rejected" THEN Throw(fr.err, NoEff)
    ELSE IF ResponseOk(fr) THEN Return(NoEff)
    ELSE Throw(Error("Failed to retrieve client token. Status: ", fr.status),
               NoEff)

\* lines 157-158: the try block once response.json() has settled
ClientTokenJson(body, fr) ==
    LET data == ResponseJson(fr)
    IN  IF data.thrown THEN Throw(data.err, NoEff)
        ELSE Return(Send(NoEff, ResText(200, data.value.client_token)))

\* the catch block sending the message of the error
ClientTokenCatchSendsMessage(t) ==
    IF t.thrown THEN Send(t.value, ResText(500, t.err.text)) ELSE t.value

\* lines 162-165: the catch block
ClientTokenCatch(t) ==
    IF t.thrown
    THEN Send(t.value, ResText(500, "An error occurred while processing the request."))
    ELSE t.value

----------------------------------------------------------------------------
\* Dispatch on the route

Endpoints == {"/initiate-payment", "/complete_order", "/get_client_token"}

ApiFetch(ep, body, token) ==
    CASE ep = "/initiate-payment" -> InitiatePaymentFetch(body, token)
      [] ep = "/complete_order" -> CompleteOrderFetch(body, token)
      [] ep = "/get_client_token" -> ClientTokenFetch(body, token)

\* try { ... } catch { ... } of the handler around a completion of its body
HandlerCatch(ep, t) ==
    CASE ep = "/initiate-payment" -> InitiatePaymentCatch(t)
      [] ep = "/complete_order" -> CompleteOrderCatch(t)
      [] ep = "/get_client_token" -> ClientTokenCatch(t)

\* the try block of the handler once its own fetch has settled
HandlerResponse(ep, fr) ==
    CASE ep = "/initiate-payment" -> InitiatePaymentResponse(fr)
      [] ep = "/complete_order" -> CompleteOrderResponse(fr)
      [] ep = "/get_client_token" -> ClientTokenResponse(fr)

\* the try block of the handler once response.json() has settled
HandlerJson(ep, body, fr) ==
    CASE ep = "/initiate-payment" -> InitiatePaymentJson(body, fr)
      [] ep = "/complete_order" -> CompleteOrderJson(body, fr)
      [] ep = "/get_client_token" -> ClientTokenJson(body, fr)

----------------------------------------------------------------------------
\* The inputs of a behaviour: the bodies clients post and the results the
\* processor gives.  AllInputs is every value above; CoreInputs is one value
\* per case, for the behaviours with several requests in flight.

AllInputs ==
    [bodies |-> [ep \in Endpoints |->
                    CASE ep = "/initiate-payment" -> InitiateBodies
                      [] ep = "/complete_order" -> CompleteBodies
                      [] ep = "/get_client_token" -> ClientTokenBodies],
     token |-> TokenResults,
     api |-> [ep \in Endpoints |->
                    CASE ep = "/initiate-payment" -> OrderResults({201}, {"ORDER-1"})
                      [] ep = "/complete_order" ->
                            OrderResults({200}, {"ORDER-1", Undefined})
                      [] ep = "/get_client_token" -> ClientTokenResults]]

CoreInputs ==
    [bodies |-> [ep \in Endpoints |->
                    CASE ep = "/initiate-payment" ->
                            { b \in InitiateBodies :
                                /\ b.currency = "USD" /\ b.amount = "10.00"
                                /\ b.cardNumber = "4111111111111111" }
                      [] ep = "/complete_order" ->
                            { b \in CompleteBodies : b.email # Undefined }
                      [] ep = "/get_client_token" ->
                            { b \in ClientTokenBodies : Truthy(b.customer_id) }],
     token |-> { fr \in TokenResults :
                    ResponseOk(fr) => fr.body.access_token # Undefined },
     api |-> [ep \in Endpoints |->
                { fr \in AllInputs.api[ep] :
                    \/ fr.kind = "rejected"
                    \/ fr.status = 500
                    \/ /\ ResponseOk(fr) /\ fr.body.parses
                       /\ ep = "/complete_order" => fr.body.id # Undefined
                       /\ ep = "/get_client_token" =>
                            fr.body.client_token # Undefined }]]

\* LiveInputs is one body per route, one token, and one result per way a
\* fetch can end, for the behaviours checked to their end.
LiveInputs ==
    [bodies |-> [ep \in Endpoints |->
                    { b \in CoreInputs.bodies[ep] : b.customer_id # "cust-2" }],
     token |-> { fr \in CoreInputs.token :
                    /\ fr.kind = "response"
                    /\ fr.body.access_token # "A21AA-2" },
     api |-> [ep \in Endpoints |->
                { fr \in CoreInputs.api[ep] : fr.body.client_token # "ct-2" }]]

----------------------------------------------------------------------------
\* State machine

Init ==
    /\ process = "serving"
    /\ pc = [r \in Requests |-> "idle"]
    /\ req = [r \in Requests |-> NoRequest]
    /\ access_token = [r \in Requests |-> Undefined]
    /\ calls = [r \in Requests |-> << >>]
    /\ tokRes = [r \in Requests |-> NoResult]
    /\ token_promise = [r \in Requests |-> Return(Undefined)]
    /\ apiRes = [r \in Requests |-> NoResult]
    /\ hung = [r \in Requests |-> FALSE]
    /\ res = [r \in Requests |-> NoRes]
    /\ resCount = [r \in Requests |-> 0]
    /\ receipts = [r \in Requests |-> 0]

\* the effects of a handler step that ends the handler
Finish(r, eff) ==
    /\ pc' = [pc EXCEPT ![r] = "done"]
    /\ res' = [res EXCEPT ![r] = eff.res]
    /\ resCount' = [resCount EXCEPT ![r] = @ + eff.sent]
    /\ receipts' = [receipts EXCEPT ![r] = @ + eff.receipts]
    /\ process' = IF eff.uncaught THEN "crashed" ELSE process

\* A request arrives (requests are numbered in order of arrival); its handler
\* runs to the await of the token fetch.
Start(r, ep, in) ==
    /\ process = "serving"
    /\ \A q \in Requests : q < r => pc[q] # "idle"
    /\ \E b \in in.bodies[ep] :
        req' = [req EXCEPT ![r] = [endpoint |-> ep, body |-> b]]
    /\ pc' = [pc EXCEPT ![r] = "await_token"]
    /\ calls' = [calls EXCEPT ![r] = Append(@, TokenRequest)]
    /\ UNCHANGED <<process, access_token, tokRes, token_promise, apiRes, hung,
                   res, resCount, receipts>>

\* The token fetch settles; get_access_token runs to its await of
\* response.json(), or throws, which settles the promise the handler awaits.
AfterToken(r, ep, in) ==
    /\ process = "serving"
    /\ ~hung[r]
    /\ req[r].endpoint = ep
    /\ \E fr \in { Unread(f) : f \in in.token } :
        LET t == get_access_token_response(fr)
        IN  /\ tokRes' = [tokRes EXCEPT ![r] = fr]
            /\ IF t.thrown
               THEN /\ token_promise' = [token_promise EXCEPT ![r] = t]
                    /\ pc' = [pc EXCEPT ![r] = "token_settled"]
               ELSE /\ pc' = [pc EXCEPT ![r] = "await_token_json"]
                    /\ UNCHANGED token_promise
    /\ UNCHANGED <<process, req, access_token, calls, apiRes, hung, res, resCount,
                   receipts>>

\* The body of the token response arrives; get_access_token returns the
\* token, or throws when the body is not JSON: either settles the promise
\* the handler awaits.
AfterTokenJson(r, ep, in) ==
    /\ process = "serving"
    /\ ~hung[r]
    /\ req[r].endpoint = ep
    /\ \E fr \in { f \in in.token : Unread(f) = tokRes[r] } :
        /\ tokRes' = [tokRes EXCEPT ![r] = fr]
        /\ token_promise' = [token_promise EXCEPT ![r] = get_access_token_json(fr)]
    /\ pc' = [pc EXCEPT ![r] = "token_settled"]
    /\ UNCHANGED <<process, req, access_token, calls, apiRes, hung, res, resCount,
                   receipts>>

\* The promise job that resumes the handler at 'await get_access_token()':
\* the handler runs to the await of its own fetch, or to its catch block
\* when get_access_token threw.
AfterGetAccessToken(r, ep) ==
    /\ process = "serving"
    /\ req[r].endpoint = ep
    /\ LET t == token_promise[r]
       IN  IF t.thrown
           THEN /\ Finish(r, HandlerCatch(ep, Throw(t.err, NoEff)))
                /\ UNCHANGED <<access_token, calls>>
           ELSE /\ access_token' = [access_token EXCEPT ![r] = t.value]
                /\ calls' = [calls EXCEPT
                               ![r] = Append(@, ApiFetch(ep, req[r].body, t.value))]
                /\ pc' = [pc EXCEPT ![r] = "await_api"]
                /\ UNCHANGED <<process, res, resCount, receipts>>
    /\ UNCHANGED <<req, tokRes, token_promise, apiRes, hung>>

\* The handler's own fetch settles; the handler runs to its await of
\* response.json(), or to its catch block.
AfterFetch(r, ep, in) ==
    /\ process = "serving"
    /\ ~hung[r]
    /\ req[r].endpoint = ep
    /\ \E fr \in { Unread(f) : f \in in.api[ep] } :
        LET t == HandlerResponse(ep, fr)
        IN  /\ apiRes' = [apiRes EXCEPT ![r] = fr]
            /\ IF t.thrown
               THEN Finish(r, HandlerCatch(ep, t))
               ELSE /\ pc' = [pc EXCEPT ![r] = "await_api_json"]
                    /\ UNCHANGED <<process, res, resCount, receipts>>
    /\ UNCHANGED <<req, access_token, calls, tokRes, token_promise, hung>>

\* The body of the handler's response arrives; the handler runs to its end.
AfterFetchJson(r, ep, in) ==
    /\ process = "serving"
    /\ ~hung[r]
    /\ req[r].endpoint = ep
    /\ \E fr \in { f \in in.api[ep] : Unread(f) = apiRes[r] } :
        /\ apiRes' = [apiRes EXCEPT ![r] = fr]
        /\ Finish(r, HandlerCatch(ep, HandlerJson(ep, req[r].body, fr)))
    /\ UNCHANGED <<req, access_token, calls, tokRes, token_promise, hung>>

\* app.post('/initiate-payment')
InitiatePaymentStart(r, in) ==
    /\ pc[r] = "idle"
    /\ Start(r, "/initiate-payment", in)

InitiatePaymentAfterToken(r, in) ==
    /\ pc[r] = "await_token"
    /\ AfterToken(r, "/initiate-payment", in)

InitiatePaymentAfterTokenJson(r, in) ==
    /\ pc[r] = "await_token_json"
    /\ AfterTokenJson(r, "/initiate-payment", in)

InitiatePaymentAfterGetAccessToken(r) ==
    /\ pc[r] = "token_settled"
    /\ AfterGetAccessToken(r, "/initiate-payment")

InitiatePaymentAfterFetch(r, in) ==
    /\ pc[r] = "await_api"
    /\ AfterFetch(r, "/initiate-payment", in)

InitiatePaymentAfterFetchJson(r, in) ==
    /\ pc[r] = "await_api_json"
    /\ AfterFetchJson(r, "/initiate-payment", in)

\* app.post('/complete_order')
CompleteOrderStart(r, in) ==
    /\ pc[r] = "idle"
    /\ Start(r, "/complete_order", in)

CompleteOrderAfterToken(r, in) ==
    /\ pc[r] = "await_token"
    /\ AfterToken(r, "/complete_order", in)

CompleteOrderAfterTokenJson(r, in) ==
    /\ pc[r] = "await_token_json"
    /\ AfterTokenJson(r, "/complete_order", in)

CompleteOrderAfterGetAccessToken(r) ==
    /\ pc[r] = "token_settled"
    /\ AfterGetAccessToken(r, "/complete_order")

CompleteOrderAfterFetch(r, in) ==
    /\ pc[r] = "await_api"
    /\ AfterFetch(r, "/complete_order", in)

CompleteOrderAfterFetchJson(r, in) ==
    /\ pc[r] = "await_api_json"
    /\ AfterFetchJson(r, "/complete_order", in)

\* app.post('/get_client_token')
ClientTokenStart(r, in) ==
    /\ pc[r] = "idle"
    /\ Start(r, "/get_client_token", in)

ClientTokenAfterToken(r, in) ==
    /\ pc[r] = "await_token"
    /\ AfterToken(r, "/get_client_token", in)

ClientTokenAfterTokenJson(r, in) ==
    /\ pc[r] = "await_token_json"
    /\ AfterTokenJson(r, "/get_client_token", in)

ClientTokenAfterGetAccessToken(r) ==
    /\ pc[r] = "token_settled"
    /\ AfterGetAccessToken(r, "/get_client_token")

ClientTokenAfterFetch(r, in) ==
    /\ pc[r] = "await_api"
    /\ AfterFetch(r, "/get_client_token", in)

ClientTokenAfterFetchJson(r, in) ==
    /\ pc[r] = "await_api_json"
    /\ AfterFetchJson(r, "/get_client_token", in)

\* The processor never answers the pending fetch of r, or never finishes the
\* body r is reading: no timeout is set on any fetch, so the handler stays
\* suspended at its await.
UpstreamHangs(r) ==
    /\ pc[r] \in {"await_token", "await_token_json", "await_api", "await_api_json"}
    /\ ~hung[r]
    /\ hung' = [hung EXCEPT ![r] = TRUE]
    /\ UNCHANGED <<process, pc, req, access_token, calls, tokRes, token_promise,
                   apiRes, res, resCount, receipts>>

\* the steps of request r
Handle(r, in) ==
    \/ InitiatePaymentStart(r, in)
    \/ InitiatePaymentAfterToken(r, in)
    \/ InitiatePaymentAfterTokenJson(r, in)
    \/ InitiatePaymentAfterGetAccessToken(r)
    \/ InitiatePaymentAfterFetch(r, in)
    \/ InitiatePaymentAfterFetchJson(r, in)
    \/ CompleteOrderStart(r, in)
    \/ CompleteOrderAfterToken(r, in)
    \/ CompleteOrderAfterTokenJson(r, in)
    \/ CompleteOrderAfterGetAccessToken(r)
    \/ CompleteOrderAfterFetch(r, in)
    \/ CompleteOrderAfterFetchJson(r, in)
    \/ ClientTokenStart(r, in)
    \/ ClientTokenAfterToken(r, in)
    \/ ClientTokenAfterTokenJson(r, in)
    \/ ClientTokenAfterGetAccessToken(r)
    \/ ClientTokenAfterFetch(r, in)
    \/ ClientTokenAfterFetchJson(r, in)
    \/ UpstreamHangs(r)

\* The server with up to MaxReq requests in flight at once.
Next == \E r \in Requests : Handle(r, CoreInputs)

Spec == Init /\ [][Next]_vars

\* One request, with every body and every processor result.
NextRequest == Handle(1, AllInputs)

SpecRequest == Init /\ [][NextRequest]_vars

\* The event loop resumes a handler whose await has settled, and the fetch
\* and the body read of a processor that answers settle: a pending step of a
\* request whose await does not hang is eventually taken.
Settle(r) ==
    \/ InitiatePaymentAfterToken(r, LiveInputs)
    \/ InitiatePaymentAfterTokenJson(r, LiveInputs)
    \/ InitiatePaymentAfterGetAccessToken(r)
    \/ InitiatePaymentAfterFetch(r, LiveInputs)
    \/ InitiatePaymentAfterFetchJson(r, LiveInputs)
    \/ CompleteOrderAfterToken(r, LiveInputs)
    \/ CompleteOrderAfterTokenJson(r, LiveInputs)
    \/ CompleteOrderAfterGetAccessToken(r)
    \/ CompleteOrderAfterFetch(r, LiveInputs)
    \/ CompleteOrderAfterFetchJson(r, LiveInputs)
    \/ ClientTokenAfterToken(r, LiveInputs)
    \/ ClientTokenAfterTokenJson(r, LiveInputs)
    \/ ClientTokenAfterGetAccessToken(r)
    \/ ClientTokenAfterFetch(r, LiveInputs)
    \/ ClientTokenAfterFetchJson(r, LiveInputs)

\* The server with up to MaxReq requests in flight at once, every request
\* followed to its end.
NextLive == \E r \in Requests : Handle(r, LiveInputs)

FairSpec ==
    Init /\ [][NextLive]_vars /\ \A r \in Requests : WF_vars(Settle(r))

----------------------------------------------------------------------------
\* Vocabulary of the properties

Done(r) == pc[r] = "done"

\* a fetch result that is a non-2xx response of the processor
NonOk(fr) == fr.kind = "response" /\ ~(fr.status \in 200..299)

\* a fetch result that is a 2xx response with a JSON body
OkJson(fr) == fr.kind = "response" /\ fr.status \in 200..299 /\ fr.body.parses

\* a fetch that settled with a failure: transport failure, non-2xx, or a body
\* that arrived and is not JSON
Failure(fr) ==
    \/ fr.kind = "rejected"
    \/ NonOk(fr)
    \/ fr.kind = "response" /\ fr.body.arrived /\ ~fr.body.parses

\* the second fetch of a request, when it was issued
ApiCall(r) == calls[r][2]

\* the handler of r waits for nothing of the processor any more: the promise
\* job that resumes it in its catch block is queued, or it has ended
Ending(r) == pc[r] = "token_settled" \/ Done(r)

\* everything the model holds about request r
View(r) ==
    <<pc[r], req[r], access_token[r], calls[r], tokRes[r], token_promise[r],
      apiRes[r], hung[r],
      res[r], resCount[r], receipts[r]>>

----------------------------------------------------------------------------
\* C1: a /complete_order request whose token exchange succeeds and whose
\* order-action call returns 2xx JSON with an order id is answered 200 with
\* that JSON, never 500.
C1_CompleteOrderSuccess ==
    \A r \in Requests :
        ( /\ Done(r) /\ req[r].endpoint = "/complete_order"
          /\ OkJson(tokRes[r]) /\ OkJson(apiRes[r])
          /\ apiRes[r].body.id # Undefined )
        => /\ res[r].status = 200
           /\ res[r].type = "json"
           /\ res[r].json = apiRes[r].body

\* C2: a /complete_order request dispatches the receipt exactly once when an
\* email was supplied and the processor's successful response has an id, and
\* zero times otherwise.
C2_ReceiptExactlyOnce ==
    \A r \in Requests :
        (Done(r) /\ req[r].endpoint = "/complete_order")
        => receipts[r] =
             IF /\ req[r].body.email # Undefined
                /\ OkJson(tokRes[r]) /\ OkJson(apiRes[r])
                /\ apiRes[r].body.id # Undefined
             THEN 1 ELSE 0

\* C3: on every endpoint a non-2xx answer of the processor, to the token
\* exchange or to the endpoint's own call, ends the request with one 500
\* response (after a failed token exchange, once the handler is resumed in
\* its catch block), and no upstream call of the request is issued twice.
C3_NonOkIs500NoRetry ==
    \A r \in Requests :
        /\ NonOk(tokRes[r]) =>
              /\ Ending(r) /\ token_promise[r].thrown
              /\ Done(r) => res[r].status = 500 /\ resCount[r] = 1
              /\ Len(calls[r]) = 1
        /\ NonOk(apiRes[r]) =>
              /\ Done(r) /\ res[r].status = 500 /\ resCount[r] = 1
              /\ Len(calls[r]) = 2
        /\ \A i, j \in 1..Len(calls[r]) : i # j => calls[r][i].url # calls[r][j].url

C3_Witness ==
    \E r \in Requests :
        /\ req[r].endpoint = "/initiate-payment"
        /\ NonOk(apiRes[r]) /\ res[r].status = 500 /\ Len(calls[r]) = 2

\* C4: every processor call other than the token exchange carries the token
\* returned by the successful token exchange that the same request made
\* first; a request whose token exchange fails issues no further call.
C4_FreshTokenPerRequest ==
    \A r \in Requests :
        /\ Len(calls[r]) >= 1 => calls[r][1] = TokenRequest
        /\ Len(calls[r]) <= 2
        /\ Len(calls[r]) = 2 =>
              /\ OkJson(tokRes[r])
              /\ ApiCall(r).authorization.scheme = "Bearer"
              /\ ApiCall(r).authorization.credentials = <<tokRes[r].body.access_token>>
              /\ ApiCall(r).url # TokenRequest.url
        /\ Failure(tokRes[r]) => Len(calls[r]) = 1 /\ Ending(r)

C4_Witness ==
    \E r, q \in Requests :
        /\ r # q
        /\ Len(calls[r]) = 2 /\ ApiCall(r).authorization = Bearer("A21AA-2")
        /\ Failure(tokRes[q]) /\ Done(q) /\ Len(calls[q]) = 1

\* C5: with several /get_client_token requests in flight, each identity-token
\* call carries the token and the customer id of its own request, and each
\* client gets the client token, or the failure, of its own request.
C5_ClientTokenIsolation ==
    \A r \in Requests :
        req[r].endpoint = "/get_client_token" =>
            /\ Len(calls[r]) = 2 =>
                  /\ ApiCall(r).authorization.credentials = <<tokRes[r].body.access_token>>
                  /\ ApiCall(r).body.customer_id = req[r].body.customer_id
            /\ (Done(r) /\ OkJson(tokRes[r]) /\ OkJson(apiRes[r])) =>
                  /\ res[r].status = 200
                  /\ res[r].text = apiRes[r].body.client_token
            /\ (Done(r) /\ (Failure(tokRes[r]) \/ Failure(apiRes[r]))) =>
                  res[r].status = 500

C5_Witness ==
    \E r, q \in Requests :
        /\ r # q
        /\ req[r].endpoint = "/get_client_token" /\ req[q].endpoint = "/get_client_token"
        /\ req[r].body.customer_id # req[q].body.customer_id
        /\ Done(r) /\ Done(q)
        /\ tokRes[r] # tokRes[q] /\ OkJson(tokRes[r]) /\ OkJson(tokRes[q])
        /\ res[r].status = 200 /\ res[q].status = 200 /\ res[r].text # res[q].text

\* C6: the order payload of /initiate-payment has intent CAPTURE and one
\* purchase unit holding exactly the input currency and amount, and a 2xx
\* answer of the processor is returned unmodified with status 200.
C6_OrderPayload ==
    \A r \in Requests :
        req[r].endpoint = "/initiate-payment" =>
            /\ Len(calls[r]) = 2 =>
                  /\ ApiCall(r).body.intent = "CAPTURE"
                  /\ ApiCall(r).body.purchase_units =
                        << [amount |-> [currency_code |-> req[r].body.currency,
                                        value |-> req[r].body.amount]] >>
            /\ (Done(r) /\ OkJson(apiRes[r])) =>
                  /\ res[r].status = 200 /\ res[r].type = "json"
                  /\ res[r].json = apiRes[r].body

C6_Witness ==
    \E r \in Requests :
        /\ req[r].endpoint = "/initiate-payment" /\ Done(r) /\ OkJson(apiRes[r])
        /\ req[r].body.currency = "EUR" /\ req[r].body.amount = "25.50"
        /\ res[r].status = 200

\* C7 as stated: the identity-token request carries customer_id, equal to the
\* request's, if and only if the request supplied a customer_id.
C7_ScopedIffSupplied ==
    \A r \in Requests :
        (req[r].endpoint = "/get_client_token" /\ Len(calls[r]) = 2) =>
            /\ (ApiCall(r).body.customer_id # Undefined)
                  <=> (req[r].body.customer_id # Undefined)
            /\ ApiCall(r).body.customer_id = req[r].body.customer_id

\* C7 amended: the identity-token request carries customer_id, equal to the
\* request's, if and only if the request's customer_id is truthy (supplied
\* and not the empty string); otherwise its body is null.  A 2xx answer with
\* a client_token is returned as text with status 200.
C7_ScopedIffTruthy ==
    \A r \in Requests :
        req[r].endpoint = "/get_client_token" =>
            /\ Len(calls[r]) = 2 =>
                  IF req[r].body.customer_id \notin {Undefined, ""}
                  THEN /\ ApiCall(r).body.kind = "json"
                       /\ ApiCall(r).body.customer_id = req[r].body.customer_id
                  ELSE /\ ApiCall(r).body.kind = "null"
                       /\ ApiCall(r).body.customer_id = Undefined
            /\ (Done(r) /\ OkJson(apiRes[r]) /\ apiRes[r].body.client_token # Undefined) =>
                  /\ res[r].status = 200 /\ res[r].type = "text"
                  /\ res[r].text = apiRes[r].body.client_token

C7_Witness ==
    \E r \in Requests :
        /\ req[r].endpoint = "/get_client_token" /\ Done(r)
        /\ req[r].body.customer_id = ""
        /\ Len(calls[r]) = 2 /\ ApiCall(r).body.kind = "null"
        /\ res[r].status = 200 /\ res[r].text = "ct-2"

\* C8: every failure of a request (non-2xx answer, transport failure, or an
\* exception thrown in the handler body) ends that request with one 500
\* response, at once or as the next step of the request; the process keeps
\* serving, a step of one request changes nothing of another, and a request
\* without a failure is answered 200.
C8_Failed(r) ==
    \/ Failure(tokRes[r])
    \/ Failure(apiRes[r])
    \/ req[r].endpoint = "/complete_order" /\ OkJson(apiRes[r])

C8_FailureIsolated ==
    /\ [](/\ process = "serving"
          /\ \A r \in Requests :
                /\ C8_Failed(r) => Ending(r)
                /\ (C8_Failed(r) /\ Done(r)) => res[r].status = 500 /\ resCount[r] = 1
                /\ (Done(r) /\ ~C8_Failed(r)) => res[r].status = 200)
    /\ [][\A r \in Requests :
            (C8_Failed(r) /\ ~Done(r) /\ View(r)' # View(r)) =>
                Done(r)' /\ res'[r].status = 500]_vars
    /\ [][\A r, q \in Requests :
            (r # q /\ View(r)' # View(r)) => View(q)' = View(q)]_vars

C8_Witness ==
    \E r, q \in Requests :
        /\ r < q
        /\ Done(r) /\ req[r].endpoint = "/complete_order" /\ OkJson(apiRes[r])
        /\ res[r].status = 500
        /\ Done(q) /\ res[q].status = 200

\* C9: a 500 of /complete_order is the JSON object {error: message} with the
\* message of the error that caused it (for a non-2xx answer to the order
\* call, 'Failed to complete order' with the processor's status); a 500 of
\* /get_client_token is the same fixed text whatever the cause.
C9_Cause(r) ==
    IF NonOk(tokRes[r])
        THEN [text |-> "Failed to retrieve access token. Status: ",
              status |-> tokRes[r].status]
    ELSE IF tokRes[r].kind = "rejected" \/ apiRes[r].kind = "rejected"
        THEN [text |-> "request failed", status |-> 0]
    ELSE IF ~OkJson(tokRes[r])
        THEN [text |-> "invalid json", status |-> 0]
    ELSE IF NonOk(apiRes[r])
        THEN [text |-> "Failed to complete order. Status: ",
              status |-> apiRes[r].status]
    ELSE IF ~OkJson(apiRes[r])
        THEN [text |-> "invalid json", status |-> 0]
    ELSE [text |-> "loggert is not defined", status |-> 0]

C9_ErrorBodies ==
    \A r \in Requests :
        (Done(r) /\ res[r].status = 500) =>
            /\ req[r].endpoint = "/complete_order" =>
                  /\ res[r].type = "json"
                  /\ res[r].error.text = C9_Cause(r).text
                  /\ res[r].error.status = C9_Cause(r).status
            /\ req[r].endpoint = "/get_client_token" =>
                  /\ res[r].type = "text"
                  /\ res[r].text = "An error occurred while processing the request."

C9_Witness ==
    \E r \in Requests :
        /\ Done(r) /\ req[r].endpoint = "/complete_order" /\ NonOk(apiRes[r])
        /\ res[r].status = 500 /\ res[r].error.status = 401

\* C10: a request never gets more than one response; a request whose
\* upstream calls all complete eventually gets exactly one response, 200 or
\* 500; a request whose upstream call never completes gets none.
C10_OneResponse ==
    /\ [](\A r \in Requests :
            /\ resCount[r] <= 1
            /\ Done(r) => resCount[r] = 1 /\ res[r].status \in {200, 500}
            /\ ~Done(r) => resCount[r] = 0
            /\ hung[r] => ~Done(r))
    /\ [][\A r \in Requests : hung[r] => hung'[r]]_vars
    /\ \A r \in Requests : pc[r] # "idle" ~> (Done(r) \/ hung[r])

C10_Witness ==
    \E r, q \in Requests :
        /\ hung[r] /\ pc[r] = "await_api" /\ resCount[r] = 0
        /\ Done(q) /\ resCount[q] = 1 /\ res[q].status = 200

====
